---- MODULE Spec2Model ----
(***************************************************************************)
(* A model of NameGenerator.py: training of the letter statistics from a   *)
(* corpus file (__init__, _analyze_names, _save_training_data,             *)
(* _load_training_data) and generation of a name (random_name,             *)
(* _generate_next_char, _weighted_random_choice).                          *)
(*                                                                         *)
(* A Python str is a sequence of one-character strings; indices in the     *)
(* helper operators are 0-based as in the code.                            *)
(***************************************************************************)
EXTENDS Integers, Sequences, FiniteSets, TLC

VARIABLES
    file,                       \* the lines of name_file
    pkl,                        \* training_data_file: <<>> if absent, else <<data>>
    pc,                         \* position of the program
    letter_pairs,               \* self.letter_pairs
    trigrams,                   \* self.trigrams
    first_letter_distribution,  \* self.first_letter_distribution
    length_distribution,        \* self.length_distribution
    first_two_letter_digrams,   \* self.first_two_letter_digrams
    last_two_letter_digrams,    \* self.last_two_letter_digrams
    names,                      \* _analyze_names: names
    idx,                        \* _analyze_names: position of the for loop in names
    noise,                      \* random_name: noise, in hundredths
    length,                     \* random_name: length
    name,                       \* random_name: name
    iter,                       \* random_name: iterations of the for loop done
    counter,                    \* _generate_next_char: counter
    use_random,                 \* _generate_next_char: use_random
    drawn,                      \* candidates lines 72-75 drew in this _generate_next_char
    fallback_taken,             \* whether line 69 returned while building name
    result                      \* the value random_name returned

fields == <<letter_pairs, trigrams, first_letter_distribution,
            length_distribution, first_two_letter_digrams,
            last_two_letter_digrams>>
locals == <<noise, length, name, iter, counter, use_random, drawn,
            fallback_taken, result>>
vars == <<file, pkl, pc, fields, names, idx, locals>>

----------------------------------------------------------------------------
(* Characters and the str methods the code uses *)

LowerLetters == <<"a", "b", "c", "d", "e", "f", "g", "h", "i", "j", "k", "l",
                  "m", "n", "o", "p", "q", "r", "s", "t", "u", "v", "w", "x",
                  "y", "z">>
UpperLetters == <<"A", "B", "C", "D", "E", "F", "G", "H", "I", "J", "K", "L",
                  "M", "N", "O", "P", "Q", "R", "S", "T", "U", "V", "W", "X",
                  "Y", "Z">>

Range(s) == {s[i] : i \in DOMAIN s}

Alphabet == Range(LowerLetters)
UpperAlphabet == Range(UpperLetters)
Whitespace == {" ", "\n"}
Vowels == {"a", "e", "i", "o", "u"}

EmptyCounter == [k \in {} |-> 0]
VOWEL_COUNTER == [v \in Vowels |-> 1]

IndexOf(s, c) == CHOOSE i \in DOMAIN s : s[i] = c

char_lower(c) == IF c \in UpperAlphabet THEN LowerLetters[IndexOf(UpperLetters, c)] ELSE c
char_upper(c) == IF c \in Alphabet THEN UpperLetters[IndexOf(LowerLetters, c)] ELSE c

str_lower(s) == [i \in 1..Len(s) |-> char_lower(s[i])]

RECURSIVE str_lstrip(_)
str_lstrip(s) ==
    IF s # <<>> /\ Head(s) \in Whitespace THEN str_lstrip(Tail(s)) ELSE s

RECURSIVE str_rstrip(_)
str_rstrip(s) ==
    IF s # <<>> /\ s[Len(s)] \in Whitespace
    THEN str_rstrip(SubSeq(s, 1, Len(s) - 1)) ELSE s

str_strip(s) == str_rstrip(str_lstrip(s))

\* str.upper in place of str.capitalize
capitalizeAll(s) == [i \in 1..Len(s) |-> char_upper(s[i])]

capitalize(s) ==
    IF s = <<>> THEN <<>>
    ELSE <<char_upper(s[1])>> \o [i \in 1..(Len(s) - 1) |-> char_lower(s[i + 1])]

Min(a, b) == IF a < b THEN a ELSE b
Max(a, b) == IF a > b THEN a ELSE b

\* s[a:b] with 0 <= a, 0 <= b
Slice(s, a, b) == SubSeq(s, a + 1, Min(b, Len(s)))
\* s[-2:]
LastTwo(s) == SubSeq(s, Max(1, Len(s) - 1), Len(s))
\* s[i], 0-based
At(s, i) == s[i + 1]

----------------------------------------------------------------------------
(* _analyze_names *)

\* line 29 with len(line) in place of len(line.strip())
KeepLineRaw(line) == Len(line) >= 2

\* line 29: the test of the list comprehension
KeepLine(line) == Len(str_strip(line)) >= 2

ReadNames(f) ==
    LET kept == SelectSeq(f, KeepLine)
    IN [k \in 1..Len(kept) |-> str_lower(str_strip(kept[k]))]

\* Counter: c[k] += 1
CounterIncrement(c, k) ==
    IF k \in DOMAIN c THEN [c EXCEPT ![k] = @ + 1]
    ELSE [j \in DOMAIN c \cup {k} |-> IF j = k THEN 1 ELSE c[j]]

\* lp[x] = Counter({y: 1}) in place of lp[x][y] += 1
PairIncrementOverwrite(lp, x, y) ==
    [j \in DOMAIN lp \cup {x} |->
        IF j = x THEN CounterIncrement(EmptyCounter, y) ELSE lp[j]]

\* defaultdict(Counter): lp[x][y] += 1
PairIncrement(lp, x, y) ==
    IF x \in DOMAIN lp THEN [lp EXCEPT ![x] = CounterIncrement(@, y)]
    ELSE [j \in DOMAIN lp \cup {x} |->
            IF j = x THEN CounterIncrement(EmptyCounter, y) ELSE lp[j]]

\* the test of line 40 left out
TrigramGuardAlways(i, n) == TRUE

\* line 40
TrigramGuard(i, n) == i < Len(n) - 2

\* the for loop over i in range(len(name) - 1), from iteration i on
RECURSIVE PairLoop(_, _, _)
PairLoop(st, n, i) ==
    IF i >= Len(n) - 1 THEN st
    ELSE PairLoop(
            [letter_pairs |-> PairIncrement(st.letter_pairs, At(n, i), At(n, i + 1)),
             trigrams |-> IF TrigramGuard(i, n)
                          THEN st.trigrams \cup {Slice(n, i, i + 3)}
                          ELSE st.trigrams],
            n, i + 1)

\* the body of the for loop over names, for one name: the six fields after it
AnalyzeName(st, n) ==
    LET pl == PairLoop([letter_pairs |-> st.letter_pairs, trigrams |-> st.trigrams], n, 0)
    IN [letter_pairs |-> pl.letter_pairs,
        trigrams |-> pl.trigrams,
        first_letter_distribution |-> CounterIncrement(st.first_letter_distribution, At(n, 0)),
        length_distribution |-> CounterIncrement(st.length_distribution, Len(n)),
        first_two_letter_digrams |-> st.first_two_letter_digrams \cup {Slice(n, 0, 2)},
        last_two_letter_digrams |-> st.last_two_letter_digrams \cup {LastTwo(n)}]

\* the for loop over names, from position i on: the six fields after it
RECURSIVE AnalyzeNames(_, _, _)
AnalyzeNames(st, ns, i) ==
    IF i >= Len(ns) THEN st
    ELSE AnalyzeNames(AnalyzeName(st, At(ns, i)), ns, i + 1)

\* the six fields of the object, as a record
Model ==
    [letter_pairs |-> letter_pairs,
     trigrams |-> trigrams,
     first_letter_distribution |-> first_letter_distribution,
     length_distribution |-> length_distribution,
     first_two_letter_digrams |-> first_two_letter_digrams,
     last_two_letter_digrams |-> last_two_letter_digrams]

\* the six fields as __init__ sets them before training or loading
EmptyModel ==
    [letter_pairs |-> EmptyCounter,
     trigrams |-> {},
     first_letter_distribution |-> EmptyCounter,
     length_distribution |-> EmptyCounter,
     first_two_letter_digrams |-> {},
     last_two_letter_digrams |-> {}]

SetModel(m) ==
    /\ letter_pairs' = m.letter_pairs
    /\ trigrams' = m.trigrams
    /\ first_letter_distribution' = m.first_letter_distribution
    /\ length_distribution' = m.length_distribution
    /\ first_two_letter_digrams' = m.first_two_letter_digrams
    /\ last_two_letter_digrams' = m.last_two_letter_digrams

\* the tuple _save_training_data pickles
PickleData(m) ==
    <<m.letter_pairs, m.length_distribution, m.first_letter_distribution,
      m.trigrams, m.first_two_letter_digrams, m.last_two_letter_digrams>>

\* the tuple unpacked with the two digram sets in the other order
UnpickleDataSwapped(d) ==
    [letter_pairs |-> d[1],
     length_distribution |-> d[2],
     first_letter_distribution |-> d[3],
     trigrams |-> d[4],
     first_two_letter_digrams |-> d[6],
     last_two_letter_digrams |-> d[5]]

\* the fields _load_training_data unpacks from the tuple
UnpickleData(d) ==
    [letter_pairs |-> d[1],
     length_distribution |-> d[2],
     first_letter_distribution |-> d[3],
     trigrams |-> d[4],
     first_two_letter_digrams |-> d[5],
     last_two_letter_digrams |-> d[6]]

----------------------------------------------------------------------------
(* _weighted_random_choice and _generate_next_char *)

\* _weighted_random_choice returning 0 for an empty distribution
WeightedRandomChoiceDefault(distribution) ==
    IF DOMAIN distribution = {} THEN {[ok |-> TRUE, value |-> 0]}
    ELSE {[ok |-> TRUE, value |-> k] : k \in {j \in DOMAIN distribution : distribution[j] > 0}}

\* the outcomes of _weighted_random_choice: the unpacking of zip() raises on an
\* empty distribution, else random.choices returns an item of positive weight
WeightedRandomChoice(distribution) ==
    IF DOMAIN distribution = {} THEN {[ok |-> FALSE, value |-> 0]}
    ELSE {[ok |-> TRUE, value |-> k] : k \in {j \in DOMAIN distribution : distribution[j] > 0}}

\* dict.get(k, Counter()): no vowels for a missing key
DictGetEmpty(d, k, default) == IF k \in DOMAIN d THEN d[k] ELSE EmptyCounter

\* dict.get(k, default)
DictGet(d, k, default) == IF k \in DOMAIN d THEN d[k] ELSE default

\* the dictionary after d[k] on a defaultdict(Counter): a missing key is inserted
DictAfterGetItem(d, k) ==
    IF k \in DOMAIN d THEN d
    ELSE [j \in DOMAIN d \cup {k} |-> IF j = k THEN EmptyCounter ELSE d[j]]

\* the dictionary after d.get(k, default): get inserts nothing
DictAfterGet(d, k) == d

MaxAttempts == 100

Last(s) == s[Len(s)]

\* the outcomes of line 72 or of lines 74-75
Candidates(lp, n, rnd) ==
    IF rnd THEN {[ok |-> TRUE, value |-> c] : c \in Alphabet}
    ELSE WeightedRandomChoice(DictGet(lp, Last(n), VOWEL_COUNTER))

BreaksStartDigram(n, c) ==
    Len(n) = 1 /\ <<At(n, 0), c>> \notin first_two_letter_digrams

\* the test of line 80 left out
BreaksTrigramNever(n, c) == FALSE

BreaksTrigram(n, c) ==
    Len(n) >= 2 /\ Append(LastTwo(n), c) \notin trigrams

\* line 82 with len(name) >= length in place of len(name) >= length - 1
BreaksEndDigramLate(n, len, c) ==
    Len(n) >= len /\ <<n[Len(n)], c>> \notin last_two_letter_digrams

\* line 82 with len(name) >= length - 2: also for the second-to-last character
BreaksEndDigramEarly(n, len, c) ==
    Len(n) >= len - 2 /\ <<n[Len(n)], c>> \notin last_two_letter_digrams

BreaksEndDigram(n, len, c) ==
    Len(n) >= len - 1 /\ <<Last(n), c>> \notin last_two_letter_digrams

Rejected(n, len, c) ==
    BreaksStartDigram(n, c) \/ BreaksTrigram(n, c) \/ BreaksEndDigram(n, len, c)

\* the test of line 105 left out
HasVowelAlways(n) == TRUE

\* any(char in 'aeiou' for char in name)
HasVowel(n) == \E i \in DOMAIN n : n[i] \in Vowels

----------------------------------------------------------------------------
(* Inputs *)

MaxNames == 2

Lines ==
    { <<" ", "a", "\n">>,
      <<"a", "n", "\n">>,
      <<"A", "n", "a", " ", "\n">>,
      <<"n", "n", "\n">>,
      <<"a", "b">> }

AnnCorpus == << <<"a", "n", "n", "\n">>, <<"a", "n", "n", "a", "\n">>, <<"a", "n", "a", "\n">> >>

Corpora == UNION {[1..k -> Lines] : k \in 0..MaxNames} \cup {AnnCorpus}

\* noise and random.random(), in hundredths
Noises == {0, 50, 100}
RandomUnit == {0, 50, 99}

----------------------------------------------------------------------------
(* The program *)

Init ==
    /\ file \in Corpora
    /\ pkl = <<>>
    /\ pc = "start"
    /\ letter_pairs = EmptyCounter
    /\ trigrams = {}
    /\ first_letter_distribution = EmptyCounter
    /\ length_distribution = EmptyCounter
    /\ first_two_letter_digrams = {}
    /\ last_two_letter_digrams = {}
    /\ names = <<>>
    /\ idx = 0
    /\ noise = 0
    /\ length = 0
    /\ name = <<>>
    /\ iter = 0
    /\ counter = 0
    /\ use_random = FALSE
    /\ drawn = 0
    /\ fallback_taken = FALSE
    /\ result = <<>>

Idle == pc \in {"start", "ready", "loaded", "returned", "raised"}

\* os.path.exists(self.training_data_file) never true
SnapshotExistsNever(p) == FALSE

\* line 20: os.path.exists(self.training_data_file)
SnapshotExists(p) == p # <<>>

\* line 64 with <= in place of <
UseRandomInclusive(r, n) == r <= n

\* line 64: random.random() < noise
UseRandom(r, n) == r < n

\* line 101 with range(length) in place of range(length - 1)
LoopDoneLate(i, len) == i >= len

\* line 101: the for loop over range(length - 1) has done its i iterations
LoopDone(i, len) == i >= len - 1

\* NameGenerator(name_file): lines 10-20, and line 29 when there is no pickle
Construct ==
    /\ Idle
    /\ SetModel(EmptyModel)
    /\ IF ~SnapshotExists(pkl)
       THEN /\ names' = ReadNames(file)
            /\ pc' = "analyze"
       ELSE /\ names' = <<>>
            /\ pc' = "load"
    /\ idx' = 0
    /\ noise' = 0 /\ length' = 0 /\ name' = <<>> /\ iter' = 0 /\ counter' = 0
    /\ use_random' = FALSE /\ drawn' = 0 /\ fallback_taken' = FALSE /\ result' = <<>>
    /\ UNCHANGED <<file, pkl>>

\* one iteration of the for loop of _analyze_names
AnalyzeStep ==
    /\ pc = "analyze"
    /\ idx < Len(names)
    /\ SetModel(AnalyzeName(Model, At(names, idx)))
    /\ idx' = idx + 1
    /\ UNCHANGED <<file, pkl, pc, names, locals>>

\* the end of _analyze_names, then _save_training_data
SaveTrainingData ==
    /\ pc = "analyze"
    /\ idx >= Len(names)
    /\ pkl' = <<PickleData(Model)>>
    /\ names' = <<>>
    /\ idx' = 0
    /\ pc' = "ready"
    /\ UNCHANGED <<file, fields, locals>>

\* line 24: _load_training_data, and the constructor returns
LoadTrainingData ==
    /\ pc = "load"
    /\ SetModel(UnpickleData(pkl[1]))
    /\ pc' = "loaded"
    /\ UNCHANGED <<file, pkl, names, idx, locals>>

\* a call random_name(noise=n)
RandomName(n) ==
    /\ pc \in {"ready", "loaded", "returned", "raised"}
    /\ noise' = n
    /\ length' = 0 /\ name' = <<>> /\ iter' = 0 /\ counter' = 0
    /\ use_random' = FALSE /\ drawn' = 0 /\ fallback_taken' = FALSE /\ result' = <<>>
    /\ pc' = "outer"
    /\ UNCHANGED <<file, pkl, fields, names, idx>>

\* lines 98-99, when _weighted_random_choice raises
DrawRaises ==
    /\ pc = "outer"
    /\ \E l \in WeightedRandomChoice(length_distribution) :
          \/ ~l.ok
          \/ \E f \in WeightedRandomChoice(first_letter_distribution) : ~f.ok
    /\ pc' = "raised"
    /\ UNCHANGED <<file, pkl, fields, names, idx, locals>>

\* lines 98-99, with the outcomes l and f of the two draws
DrawLengthAndFirst ==
    /\ pc = "outer"
    /\ \E l \in WeightedRandomChoice(length_distribution),
          f \in WeightedRandomChoice(first_letter_distribution) :
          /\ l.ok /\ f.ok
          /\ length' = l.value
          /\ name' = <<f.value>>
    /\ iter' = 0
    /\ counter' = 0
    /\ use_random' = FALSE
    /\ drawn' = 0
    /\ fallback_taken' = FALSE
    /\ pc' = "for"
    /\ UNCHANGED <<file, pkl, fields, names, idx, noise, result>>

\* line 102 calls _generate_next_char: lines 63-64
EnterNextChar(r) ==
    /\ pc = "for"
    /\ ~LoopDone(iter, length)
    /\ counter' = 0
    /\ drawn' = 0
    /\ use_random' = UseRandom(r, noise)
    /\ pc' = "while"
    /\ UNCHANGED <<file, pkl, fields, names, idx, noise, length, name, iter,
                   fallback_taken, result>>

\* lines 67-69, when the counter reaches the cap: the emergency fallback
EmergencyFallback(v) ==
    /\ pc = "while"
    /\ counter + 1 >= MaxAttempts
    /\ counter' = counter + 1
    /\ name' = Append(name, v)
    /\ iter' = iter + 1
    /\ fallback_taken' = TRUE
    /\ pc' = "for"
    /\ UNCHANGED <<file, pkl, fields, names, idx, noise, length, use_random,
                   drawn, result>>

\* lines 67-85 below the cap: one candidate c, rejected (continue) or returned
DrawCandidate ==
    /\ pc = "while"
    /\ counter + 1 < MaxAttempts
    /\ counter' = counter + 1
    /\ drawn' = drawn + 1
    /\ letter_pairs' = IF use_random THEN letter_pairs
                       ELSE DictAfterGet(letter_pairs, Last(name))
    /\ \E c \in Candidates(letter_pairs, name, use_random) :
          IF ~c.ok
          THEN /\ pc' = "raised"
               /\ UNCHANGED <<name, iter>>
          ELSE IF Rejected(name, length, c.value)
          THEN UNCHANGED <<name, iter, pc>>
          ELSE /\ name' = Append(name, c.value)
               /\ iter' = iter + 1
               /\ pc' = "for"
    /\ UNCHANGED <<file, pkl, trigrams, first_letter_distribution,
                   length_distribution, first_two_letter_digrams,
                   last_two_letter_digrams, names, idx, noise, length,
                   use_random, fallback_taken, result>>

\* lines 105-106: the finished name has no vowel
RejectName ==
    /\ pc = "for"
    /\ LoopDone(iter, length)
    /\ ~HasVowel(name)
    /\ pc' = "outer"
    /\ UNCHANGED <<file, pkl, fields, names, idx, locals>>

\* lines 105-108
ReturnName ==
    /\ pc = "for"
    /\ LoopDone(iter, length)
    /\ HasVowel(name)
    /\ result' = capitalize(name)
    /\ pc' = "returned"
    /\ UNCHANGED <<file, pkl, fields, names, idx, noise, length, name, iter,
                   counter, use_random, drawn, fallback_taken>>

Next ==
    \/ Construct
    \/ AnalyzeStep
    \/ SaveTrainingData
    \/ LoadTrainingData
    \/ \E n \in Noises : RandomName(n)
    \/ DrawRaises
    \/ DrawLengthAndFirst
    \/ \E r \in RandomUnit : EnterNextChar(r)
    \/ \E v \in Vowels : EmergencyFallback(v)
    \/ DrawCandidate
    \/ RejectName
    \/ ReturnName

Spec == Init /\ [][Next]_vars

\* The calls with noise=0.0, on the corpora of at most one line and on one
\* corpus where a modeled call reaches the emergency fallback
FallbackCorpus == << <<"A", "n", "a", " ", "\n">>, <<"a", "b">> >>

LiveInit == Init /\ (Len(file) <= 1 \/ file = FallbackCorpus)

NextModeled ==
    \/ Construct
    \/ AnalyzeStep
    \/ SaveTrainingData
    \/ LoadTrainingData
    \/ RandomName(0)
    \/ DrawRaises
    \/ DrawLengthAndFirst
    \/ \E r \in RandomUnit : EnterNextChar(r)
    \/ \E v \in Vowels : EmergencyFallback(v)
    \/ DrawCandidate
    \/ RejectName
    \/ ReturnName

\* Fair random draws: the program keeps running, and a first letter that is a
\* vowel, an accepted candidate and a rejected candidate, each drawn
\* infinitely often if it is possible infinitely often
Fairness ==
    /\ WF_vars(NextModeled)
    /\ SF_vars(DrawLengthAndFirst /\ HasVowel(name'))
    /\ SF_vars(DrawCandidate /\ pc' = "for")
    /\ SF_vars(DrawCandidate /\ pc' = "while")

FairSpec == LiveInit /\ [][NextModeled]_vars /\ Fairness

----------------------------------------------------------------------------
(* Properties *)

\* the names _analyze_names retains from the file
Retained == ReadNames(file)

\* the positions (k, i) with Retained[k][i] = x and Retained[k][i + 1] = y
PairPositions(x, y) ==
    {p \in UNION {{<<k, i>> : i \in 0..(Len(Retained[k]) - 2)} : k \in DOMAIN Retained} :
        /\ At(Retained[p[1]], p[2]) = x
        /\ At(Retained[p[1]], p[2] + 1) = y}

\* the count a defaultdict(Counter) holds for (x, y): 0 when there is no entry
PairCount(lp, x, y) ==
    IF x \in DOMAIN lp /\ y \in DOMAIN lp[x] THEN lp[x][y] ELSE 0

\* whether t occurs in n as consecutive characters
IsSubstring(t, n) ==
    \E i \in 0..(Len(n) - Len(t)) : SubSeq(n, i + 1, i + Len(t)) = t

\* what training leaves in transition_counts for ["ann", "anna", "ana"], with
\* nn the count the claim gives for ('n', 'n')
AnnTransitionCounts(nn) ==
    /\ DOMAIN letter_pairs = {"a", "n"}
    /\ DOMAIN letter_pairs["a"] = {"n"}
    /\ letter_pairs["a"]["n"] = 3
    /\ DOMAIN letter_pairs["n"] = {"n", "a"}
    /\ letter_pairs["n"]["n"] = nn
    /\ letter_pairs["n"]["a"] = 2

\* after training on any corpus, transition_counts[x][y] is the number of
\* positions i, over all the retained names, with name[i] = x and
\* name[i + 1] = y, and an entry is stored only for a pair that occurs
CountsArePositions ==
    /\ \A x \in Alphabet, y \in Alphabet :
          PairCount(letter_pairs, x, y) = Cardinality(PairPositions(x, y))
    /\ \A x \in DOMAIN letter_pairs : \A y \in DOMAIN letter_pairs[x] :
          letter_pairs[x][y] >= 1

\* C6 as stated: after training on ["ann", "anna", "ana"], transition_counts['a']
\* is {'n': 3} and transition_counts['n'] has count 1 for 'n' and count 2 for
\* 'a'; in general transition_counts[x][y] is the number of positions (k, i)
\* with names[k][i] = x and names[k][i + 1] = y.
C6_AsStated ==
    pc = "ready" =>
        /\ file = AnnCorpus => AnnTransitionCounts(1)
        /\ CountsArePositions

\* C6, amended: after training on ["ann", "anna", "ana"], transition_counts['a']
\* is {'n': 3} and transition_counts['n'] has count 2 for 'n' ("ann" and "anna")
\* and count 2 for 'a'; in general transition_counts[x][y] is the number of
\* positions (k, i) with names[k][i] = x and names[k][i + 1] = y.
C6_TransitionCounts ==
    pc = "ready" =>
        /\ file = AnnCorpus => AnnTransitionCounts(2)
        /\ CountsArePositions

C6_Witness ==
    /\ pc = "ready"
    /\ file = AnnCorpus
    /\ PairCount(letter_pairs, "n", "n") = 2
    /\ PairCount(letter_pairs, "n", "a") = 2
    /\ PairCount(letter_pairs, "a", "n") = 3

\* C10: the iteration of the training loop for a name of exactly length 2
\* adds the name to start_digrams and to end_digrams, increments the one
\* transition_counts entry of its two characters and leaves valid_trigrams
\* as it is; at all times every element of valid_trigrams has 3 characters
\* and occurs in some retained name of length at least 3.
C10_LengthTwoName ==
    /\ [][(pc = "analyze" /\ idx' = idx + 1 /\ Len(At(names, idx)) = 2) =>
            LET n == At(names, idx) IN
            /\ trigrams' = trigrams
            /\ first_two_letter_digrams' = first_two_letter_digrams \cup {n}
            /\ last_two_letter_digrams' = last_two_letter_digrams \cup {n}
            /\ \A x \in Alphabet, y \in Alphabet :
                  PairCount(letter_pairs', x, y) =
                    PairCount(letter_pairs, x, y)
                      + (IF x = n[1] /\ y = n[2] THEN 1 ELSE 0)]_vars
    /\ [](\A t \in trigrams :
            /\ Len(t) = 3
            /\ \E k \in DOMAIN Retained :
                  Len(Retained[k]) >= 3 /\ IsSubstring(t, Retained[k]))

C10_Witness ==
    /\ pc = "analyze"
    /\ idx = 2
    /\ Len(names[1]) = 3
    /\ Len(names[2]) = 2
    /\ trigrams = {names[1]}
    /\ names[2] \in first_two_letter_digrams \cap last_two_letter_digrams
    /\ PairCount(letter_pairs, names[2][1], names[2][2]) = 1


Returned == pc = "returned"

Ann == <<"A", "n", "n">>
Ana == <<"A", "n", "a">>
Anna == <<"A", "n", "n", "a">>

\* C1 as stated: for the model trained on ["ann", "anna", "ana"], every value
\* random_name returns with noise=0.0 is "Ann", "Anna" or "Ana".
C1_AsStated ==
    (Returned /\ file = AnnCorpus /\ noise = 0) => result \in {Ann, Anna, Ana}

\* C1, amended: for the model trained on ["ann", "anna", "ana"], every value
\* random_name returns with noise=0.0 is "Ann", "Anna" or "Ana" when no
\* emergency fallback was taken, and otherwise is "Ann" or "Ana" followed by
\* the one vowel the emergency fallback returned for the fourth character.
C1_AnnOutputs ==
    (Returned /\ file = AnnCorpus /\ noise = 0) =>
        IF fallback_taken
        THEN result \in {Append(p, v) : p \in {Ann, Ana}, v \in Vowels}
        ELSE result \in {Ann, Anna, Ana}

C1_Witness ==
    /\ Returned /\ file = AnnCorpus /\ noise = 0
    /\ fallback_taken
    /\ result = <<"A", "n", "a", "e">>

\* C2 as stated: on a model trained from a corpus with at least one retained
\* name, every call of random_name, at every noise, eventually returns a name
\* when the random draws are fair.
C2_EventuallyReturns ==
    [](pc = "outer" /\ Retained # <<>> => <>Returned)

\* the windows of 3 consecutive characters of n
Windows(n) == {SubSeq(n, i, i + 2) : i \in 1..(Len(n) - 2)}

\* C3: a name returned with noise=0.0 and built without any emergency
\* fallback has, lower-cased, its first two characters in start_digrams, every
\* window of 3 consecutive characters in valid_trigrams and its last two
\* characters in end_digrams.
C3_ConstraintsWithoutFallback ==
    (Returned /\ noise = 0 /\ ~fallback_taken) =>
        LET n == str_lower(result) IN
        /\ Len(n) >= 2
        /\ SubSeq(n, 1, 2) \in first_two_letter_digrams
        /\ Windows(n) \subseteq trigrams
        /\ SubSeq(n, Len(n) - 1, Len(n)) \in last_two_letter_digrams

C3_Witness ==
    /\ Returned /\ noise = 0 /\ ~fallback_taken
    /\ Len(result) = 3
    /\ Cardinality(last_two_letter_digrams) = 2
    /\ Cardinality(first_two_letter_digrams) = 2

\* C4: every name random_name returns contains one of a, e, i, o, u, in
\* either case, whether or not an emergency fallback character was used.
C4_ReturnedHasVowel ==
    Returned => \E i \in DOMAIN result : char_lower(result[i]) \in Vowels

C4_Witness ==
    /\ Returned
    /\ fallback_taken
    /\ \E k \in DOMAIN Retained : ~HasVowel(Retained[k])
    /\ Cardinality({i \in DOMAIN result : char_lower(result[i]) \in Vowels}) = 1

\* C5: every name random_name returns is non-empty, its first character is
\* an uppercase letter and all its other characters are lowercase letters.
C5_Capitalized ==
    Returned =>
        /\ result # <<>>
        /\ result[1] \in UpperAlphabet
        /\ \A i \in 2..Len(result) : result[i] \in Alphabet

C5_Witness ==
    /\ Returned
    /\ Len(result) = 3
    /\ result[1] = "N"
    /\ result[3] = "a"

\* C7 as stated: when no name remains after filtering, training raises and no
\* model is stored: no snapshot exists and the construction does not complete.
C7_EmptyCorpusRaises ==
    Retained = <<>> => (pkl = <<>> /\ pc \in {"start", "analyze", "raised"})

EmptyDistribution ==
    DOMAIN length_distribution = {} \/ DOMAIN first_letter_distribution = {}

\* C8: a call of random_name on a model whose length_counts or
\* first_letter_counts is empty goes from its first weighted draw to the error
\* outcome: it draws no first letter and no candidate, enters neither loop
\* and returns no name.
C8_EmptyDistributionRaises ==
    /\ [][(pc = "outer" /\ EmptyDistribution) =>
            (pc' = "raised" /\ name' = <<>> /\ result' = <<>>)]_vars
    /\ []((EmptyDistribution /\ pc \in {"outer", "for", "while", "returned", "raised"}) =>
            (pc \in {"outer", "raised"} /\ name = <<>> /\ counter = 0 /\ result = <<>>))

C8_Witness ==
    /\ pc = "raised"
    /\ EmptyDistribution
    /\ file # <<>>
    /\ name = <<>>

\* C9: no step of a random_name call changes any of the six fields, also when
\* the last letter has no transition entry, and during and after every call
\* the six fields are the ones saved right after training.
C9_GenerateKeepsModel ==
    /\ [][(pc \in {"outer", "for", "while"} \/ pc' = "outer") => fields' = fields]_vars
    /\ [](pc \in {"outer", "for", "while", "returned", "raised"} =>
            (pkl # <<>> /\ PickleData(Model) = pkl[1]))

C9_Witness ==
    /\ pc = "while"
    /\ ~use_random
    /\ counter >= 1
    /\ name[Len(name)] \notin DOMAIN letter_pairs
    /\ letter_pairs # EmptyCounter


\* C11: a construction that finds the snapshot holds, once it has loaded it,
\* the model a training pass over the corpus yields, every field with the
\* value of the same field, and this is the tuple that was saved; unpacking
\* the pickled tuple of any model the object holds gives that model back.
C11_RoundTrip ==
    /\ UnpickleData(PickleData(Model)) = Model
    /\ pc = "loaded" =>
          /\ Model = AnalyzeNames(EmptyModel, Retained, 0)
          /\ pkl = <<PickleData(Model)>>

C11_Witness ==
    /\ pc = "loaded"
    /\ Cardinality(DOMAIN length_distribution) = 2
    /\ Cardinality(DOMAIN first_letter_distribution) = 2
    /\ trigrams # {}

\* the sum of the counts of a Counter
RECURSIVE CounterTotal(_)
CounterTotal(c) ==
    IF DOMAIN c = {} THEN 0
    ELSE LET k == CHOOSE j \in DOMAIN c : TRUE
         IN c[k] + CounterTotal([j \in DOMAIN c \ {k} |-> c[j]])

\* the lines of the file whose trimmed length is at least 2
LongLines == {k \in DOMAIN file : Len(str_strip(file[k])) >= 2}

\* C12: every key of length_counts is at least 2, every stored count of
\* length_counts, first_letter_counts and transition_counts is at least 1,
\* and after training length_counts and first_letter_counts each count
\* exactly the lines of trimmed length 2 or more: the shorter lines
\* contribute to no field.
C12_KeysAndCounts ==
    /\ \A k \in DOMAIN length_distribution : k >= 2 /\ length_distribution[k] >= 1
    /\ \A k \in DOMAIN first_letter_distribution : first_letter_distribution[k] >= 1
    /\ \A x \in DOMAIN letter_pairs : \A y \in DOMAIN letter_pairs[x] :
          letter_pairs[x][y] >= 1
    /\ pc = "ready" =>
          /\ CounterTotal(length_distribution) = Cardinality(LongLines)
          /\ CounterTotal(first_letter_distribution) = Cardinality(LongLines)
          /\ LongLines = {} => Model = EmptyModel

C12_Witness ==
    /\ pc = "ready"
    /\ Len(file) = 2
    /\ Cardinality(LongLines) = 1
    /\ CounterTotal(length_distribution) = 1


\* C13 as stated: a next-character call that ends in the emergency fallback
\* has drawn (and rejected) exactly 100 candidates before it, and after 99
\* rejected candidates the 100th candidate is drawn, not pre-empted by the
\* fallback.
C13_HundredCandidates ==
    /\ [](counter >= MaxAttempts => drawn = MaxAttempts)
    /\ [][(pc = "while" /\ drawn = MaxAttempts - 1) => drawn' = MaxAttempts]_vars


\* no retained name contains a vowel (and some name is retained)
VowellessCorpus ==
    /\ Retained # <<>>
    /\ \A k \in DOMAIN Retained : \A i \in DOMAIN Retained[k] : Retained[k][i] \notin Vowels

\* C14 as stated: if no retained training name contains a vowel, no call of
\* random_name on the trained model returns, at any noise.
C14_NeverReturns ==
    VowellessCorpus => ~Returned

\* C14, amended: if no retained training name contains a vowel, a call of
\* random_name returns only a name in whose construction the emergency
\* fallback was taken (the fallback's vowel is the only vowel of the name);
\* a name built without the fallback is rejected and the call restarts.
C14_ReturnsOnlyByFallback ==
    /\ (VowellessCorpus /\ Returned) =>
          /\ fallback_taken
          /\ \A i \in DOMAIN name : name[i] \in Vowels => i >= 2
    /\ (VowellessCorpus /\ pc = "for" /\ LoopDone(iter, length) /\ ~fallback_taken) =>
          \A i \in DOMAIN name : name[i] \notin Vowels

C14_Witness ==
    /\ VowellessCorpus
    /\ Returned
    /\ fallback_taken
    /\ result = <<"N", "e">>


\* an accepted candidate: _generate_next_char returns at line 85
Accepted == pc = "while" /\ pc' = "for" /\ drawn' = drawn + 1

\* C15: inside a next-character call the partial name has at most
\* length - 1 characters; the end-digram test rejects a candidate only when
\* the partial name has exactly length - 1 characters, and then rejects every
\* candidate that does not form an end digram, so an accepted last character
\* forms one; for an earlier position, the second-to-last included, a
\* candidate is rejected exactly when it breaks the start-digram or the
\* trigram rule.
C15_EndDigramOnlyLast ==
    /\ [](pc = "while" =>
            /\ Len(name) <= length - 1
            /\ \A c \in Alphabet :
                  /\ BreaksEndDigram(name, length, c) => Len(name) = length - 1
                  /\ (Len(name) = length - 1
                        /\ <<name[Len(name)], c>> \notin last_two_letter_digrams)
                      => Rejected(name, length, c)
                  /\ Len(name) < length - 1 =>
                        (Rejected(name, length, c) <=>
                            (BreaksStartDigram(name, c) \/ BreaksTrigram(name, c))))
    /\ [][(Accepted /\ Len(name) = length - 1) =>
            SubSeq(name', Len(name), Len(name')) \in last_two_letter_digrams]_vars

\* a second-to-last character was accepted although it forms no end digram
C15_Witness ==
    /\ pc = "while"
    /\ ~fallback_taken
    /\ length = 3
    /\ Len(name) = 2
    /\ name \notin last_two_letter_digrams
    /\ last_two_letter_digrams # {}


\* C16: use_random is decided when the next-character call starts and keeps
\* its value for all the candidates of the call; at noise=0.0 no call is
\* random, and every character c accepted after the last character x has
\* transition_counts[x][c] >= 1, or x has no transition entry and c is a
\* vowel; at noise=1.0 every call is random and its candidates are the 26
\* lowercase letters.
C16_RandomOrModeled ==
    /\ [][(pc = "while" /\ pc' = "while") => use_random' = use_random]_vars
    /\ [](pc = "while" =>
            /\ noise = 0 => ~use_random
            /\ noise = 100 => use_random
            /\ use_random =>
                  {c.value : c \in Candidates(letter_pairs, name, use_random)} = Alphabet)
    /\ [][(Accepted /\ noise = 0) =>
            LET x == name[Len(name)]
                c == name'[Len(name')]
            IN \/ PairCount(letter_pairs, x, c) >= 1
               \/ (x \notin DOMAIN letter_pairs /\ c \in Vowels)]_vars
    /\ [][(Accepted /\ noise = 100) => name'[Len(name')] \in Alphabet]_vars

\* a name completed at noise 0 without fallback, its last character accepted
\* after a rejected candidate
C16_Witness ==
    /\ pc = "for"
    /\ noise = 0
    /\ ~use_random
    /\ ~fallback_taken
    /\ Len(name) = 3
    /\ drawn >= 2
    /\ PairCount(letter_pairs, name[2], name[3]) >= 1


\* the last character of the partial name has no entry in transition_counts
NoTransitionEntry == name[Len(name)] \notin DOMAIN letter_pairs

\* C17: in a modeled next-character call whose partial name ends in a
\* character without transition entry, every candidate is a vowel, no step
\* ends in an error, and the character the call returns, by acceptance or by
\* the emergency fallback, is one of a, e, i, o, u.
C17_VowelFallbackDistribution ==
    /\ [](pc = "while" /\ ~use_random /\ NoTransitionEntry =>
            Candidates(letter_pairs, name, use_random)
                = {[ok |-> TRUE, value |-> v] : v \in Vowels})
    /\ [][(pc = "while" /\ ~use_random /\ NoTransitionEntry) =>
            /\ pc' \in {"while", "for"}
            /\ pc' = "for" =>
                  /\ Len(name') = Len(name) + 1
                  /\ name'[Len(name')] \in Vowels]_vars

\* such a call has returned: the name ends in a vowel that follows a
\* character without transition entry
C17_Witness ==
    /\ pc = "for"
    /\ ~use_random
    /\ Len(name) >= 2
    /\ name[Len(name) - 1] \notin DOMAIN letter_pairs
    /\ name[Len(name)] \in Vowels
    /\ letter_pairs # EmptyCounter
    /\ counter >= 1


\* C18: once the snapshot exists it is never written again and no training
\* pass runs: a construction goes to the load, and when it has returned the
\* object holds the model of the snapshot, which is the one the first
\* construction saved.
C18_LaterConstructionsLoad ==
    /\ [](pkl # <<>> => pc # "analyze" /\ names = <<>>)
    /\ [][pkl # <<>> => pkl' = pkl]_vars
    /\ [][(pkl # <<>> /\ fields' # fields) =>
            \/ (pc' = "load" /\ Model' = EmptyModel)
            \/ (pc = "load" /\ pc' = "loaded" /\ pkl = <<PickleData(Model')>>)]_vars
    /\ [](pc = "loaded" => pkl = <<PickleData(AnalyzeNames(EmptyModel, Retained, 0))>>)

\* a later construction has loaded the snapshot of a two-line corpus
C18_Witness ==
    /\ pc = "loaded"
    /\ Len(file) = 2
    /\ Len(Retained) = 2
    /\ pkl # <<>>
    /\ pkl[1][1] = letter_pairs
    /\ letter_pairs # EmptyCounter


\* C19: every name random_name returns has the drawn length, which is a key
\* of length_counts, and a lower-cased first letter that is a key of
\* first_letter_counts, at every noise and with or without emergency
\* fallbacks: the for loop appends exactly length - 1 characters to the first
\* letter, one per next-character call, and a rejected candidate leaves the
\* name as it is.
C19_LengthAndFirstLetter ==
    /\ [](Returned =>
            /\ Len(result) = length
            /\ Len(result) \in DOMAIN length_distribution
            /\ char_lower(result[1]) \in DOMAIN first_letter_distribution
            /\ iter = length - 1)
    /\ [](pc \in {"for", "while"} => (Len(name) = iter + 1 /\ iter <= length - 1))
    /\ [][(pc = "while" /\ pc' = "while") => name' = name]_vars
    /\ [][(pc = "while" /\ pc' = "for") =>
            (SubSeq(name', 1, Len(name)) = name /\ Len(name') = Len(name) + 1)]_vars

\* a name of the longer of two lengths, returned from a random-mode call
\* after an emergency fallback
C19_Witness ==
    /\ Returned
    /\ noise = 100
    /\ fallback_taken
    /\ DOMAIN length_distribution = {2, 3}
    /\ Len(result) = 3
    /\ iter = 2

====
